---- MODULE Spec2Model ----
(***************************************************************************)
(* Model of bakins/twirpotel (twirpotel.go): the tracing interceptors for  *)
(* twirp servers and clients.                                              *)
(*                                                                         *)
(* One goroutine is modelled.  It builds interceptors, and runs one chain  *)
(* of calls at a time: a call of an interceptor-wrapped method whose       *)
(* wrapped dispatch (`next`) is either a plain handler, a second           *)
(* interceptor-wrapped method (chained interceptors), or the twirp client  *)
(* transport that reaches a server wired with a server interceptor (the    *)
(* fixture of TestInterceptors).                                           *)
(*                                                                         *)
(* Go strings are sequences of tokens, so that concatenation is \o and     *)
(* the empty string is << >>.                                              *)
(***************************************************************************)
EXTENDS Integers, Sequences, FiniteSets, TLC

VARIABLES
    interceptors,   \* the interceptors built so far: set of [kind, c]
    global,         \* the process-wide default provider, otel.GetTracerProvider()
    calls,          \* the calls of the current chain, in invocation order
    spans,          \* the spans started by the calls of the current chain
    exported        \* exporter.spans: the ids of the ended spans, in export order

vars == <<interceptors, global, calls, spans, exported>>

(***************************************************************************)
(* Bounds                                                                  *)
(***************************************************************************)
MaxCalls == 2          \* calls in one chain (nesting depth of interceptors)
MaxOptions == 2        \* length of the option list given to a factory
MaxInterceptors == 2   \* interceptors built

(***************************************************************************)
(* Constants of the program and of the libraries it calls                  *)
(***************************************************************************)
NilProvider == "nil"                       \* a nil trace.TracerProvider
Providers == {"tpA", "tpB"}                \* the tracer providers of the host
SpanKindServer == "server"
SpanKindClient == "client"
InstrumentationName == <<"github.com/bakins/twirpotel">>
PackageNameKey == "twirp.package"
ServiceNameKey == "twirp.service"
MethodNameKey == "twirp.method"
ErrorCodeKey == "twirp.error_code"
ErrorMessageKey == "twirp.error_message"
RPCSystemKey == "rpc.system"
RPCMethodKey == "rpc.method"
RPCServiceKey == "rpc.service"
NoErrorCode == <<"ok">>
Internal == <<"internal">>                 \* twirp.Internal
InvalidArgument == <<"invalid_argument">>  \* twirp.InvalidArgument
NoError == << >>                           \* twirp.NoError, the empty ErrorCode
CodesUnset == "Unset"                      \* codes.Unset
CodesError == "Error"                      \* codes.Error

(***************************************************************************)
(* Errors: nil, a twirp.Error (code and message), or any other error.      *)
(***************************************************************************)
NilErr == [tag |-> "nil"]
TwirpErr(code, msg) == [tag |-> "twirp", code |-> code, msg |-> msg]
PlainErr(text) == [tag |-> "plain", text |-> text]

\* err.Error(): a twirp error prints "twirp error <code>: <msg>", errors.New(t) prints t
ErrorString(err) ==
    IF err.tag = "twirp"
    THEN <<"twirp error ">> \o err.code \o <<": ">> \o err.msg
    ELSE err.text

\* twirp.IsValidErrorCode: the codes this model uses from twirp's table
ValidErrorCodes == {Internal, InvalidArgument}

\* twirp.NewError(code, msg): an invalid code gives an internal error
\* whose message is "invalid error type " + code
NewError(code, msg) ==
    IF code \in ValidErrorCodes
    THEN TwirpErr(code, msg)
    ELSE TwirpErr(Internal, <<"invalid error type ">> \o code)

\* twirp.InternalErrorWith(err): code internal, message err.Error()
InternalErrorWith(err) == TwirpErr(Internal, ErrorString(err))

(***************************************************************************)
(* Contexts: the twirp call identity (each value optional) and the span    *)
(* the context carries.  trace.SpanFromContext gives a span with an        *)
(* invalid span context when the context carries none.                     *)
(***************************************************************************)
Absent == [ok |-> FALSE, v |-> << >>]
Present(s) == [ok |-> TRUE, v |-> s]
NoSpan == [valid |-> FALSE, provider |-> NilProvider, id |-> 0]

\* twirp.PackageName / ServiceName / MethodName: the value, "" when absent
CtxValue(x) == IF x.ok THEN x.v ELSE << >>

KeyValue(k, v) == [Key |-> k, Value |-> v]

(***************************************************************************)
(* config and its options (lines 39-74, 86-91)                             *)
(***************************************************************************)
\* the zero config, then every option applied in order
RECURSIVE applyOptions(_, _)
applyOptions(c, options) ==
    IF options = << >>
    THEN c
    ELSE applyOptions([c EXCEPT !.provider = Head(options)], Tail(options))

\* a resolver that asks the context before the configured provider
getTracerProviderParentFirst(c, ctx) ==
    IF ctx.span.valid
    THEN ctx.span.provider
    ELSE IF c.provider # NilProvider
         THEN c.provider
         ELSE global

\* config.getTracerProvider
getTracerProvider(c, ctx) ==
    IF c.provider # NilProvider
    THEN c.provider
    ELSE IF ctx.span.valid
         THEN ctx.span.provider
         ELSE global

\* commonAtrributes: the span name and the six base attributes
commonAtrributes(ctx) ==
    LET packageName == CtxValue(ctx.packageName)
        serviceName == CtxValue(ctx.serviceName)
        methodName == CtxValue(ctx.methodName)
    IN [fullMethod |-> packageName \o <<".">> \o serviceName \o <<"/">> \o methodName,
        attributes |-> << KeyValue(PackageNameKey, packageName),
                          KeyValue(ServiceNameKey, serviceName),
                          KeyValue(MethodNameKey, methodName),
                          KeyValue(RPCSystemKey, <<"twirp">>),
                          KeyValue(RPCMethodKey, methodName),
                          KeyValue(RPCServiceKey, packageName \o <<".">> \o serviceName) >>]

\* a classifier that wraps every error, classified or not
asTwirpErrorAlways(err) == InternalErrorWith(err)

\* a classifier that files the unclassified errors under "unknown"
asTwirpErrorUnknown(err) ==
    IF err.tag = "twirp" THEN err ELSE TwirpErr(<<"unknown">>, ErrorString(err))

\* the twirp.Error whose code and message are recorded (lines 156-159)
asTwirpError(err) ==
    IF err.tag = "twirp" THEN err ELSE InternalErrorWith(err)

\* error attributes that always include a message, empty when there is no error
getTwirpErrorAttributesEmptyMessage(err) ==
    IF err = NilErr
    THEN << KeyValue(ErrorCodeKey, NoErrorCode), KeyValue(ErrorMessageKey, << >>) >>
    ELSE LET twerr == asTwirpError(err)
         IN << KeyValue(ErrorCodeKey, twerr.code),
               KeyValue(ErrorMessageKey, twerr.msg) >>

\* getTwirpErrorAttributes
getTwirpErrorAttributes(err) ==
    IF err = NilErr
    THEN << KeyValue(ErrorCodeKey, NoErrorCode) >>
    ELSE LET twerr == asTwirpError(err)
         IN << KeyValue(ErrorCodeKey, twerr.code),
               KeyValue(ErrorMessageKey, twerr.msg) >>

(***************************************************************************)
(* Inputs                                                                  *)
(***************************************************************************)
ExamplePackage == <<"twitch.twirp.example">>
ExampleService == <<"Haberdasher">>
ExampleMethod == <<"MakeHat">>
Hat == "hat"            \* a response
NilResp == "nilresp"    \* the nil response
Size == "size"          \* a request

\* the option lists a factory is given: WithTracerProvider(p), p possibly nil
RECURSIVE OptionLists(_)
OptionLists(n) ==
    IF n = 0
    THEN {<< >>}
    ELSE LET shorter == OptionLists(n - 1)
         IN shorter \cup {Append(o, p) : o \in shorter, p \in {NilProvider, "tpA"}}

\* the contexts a caller passes in
NamedCtx(span) ==
    [packageName |-> Present(ExamplePackage), serviceName |-> Present(ExampleService),
     methodName |-> Present(ExampleMethod), span |-> span]
BareCtx(span) ==
    [packageName |-> Absent, serviceName |-> Absent, methodName |-> Absent, span |-> span]
CallerSpans ==
    {NoSpan, [valid |-> FALSE, provider |-> "tpB", id |-> 0],
             [valid |-> TRUE, provider |-> "tpB", id |-> 0]}
Contexts == {NamedCtx(sp) : sp \in CallerSpans} \cup {BareCtx(NoSpan)}

\* what a plain handler can return
HandlerResults ==
    { [resp |-> Hat, err |-> NilErr],
      [resp |-> NilResp, err |-> TwirpErr(InvalidArgument, <<"Inches ", "I can't make a hat that small!">>)],
      [resp |-> NilResp, err |-> PlainErr(<<"testing">>)],
      [resp |-> Hat, err |-> PlainErr(<<"half a hat">>)] }

\* server.errorCode of the test fixture
FixtureCodes == {NoError, InvalidArgument, <<"create">>, <<"testing">>}

\* the wrapped dispatch functions
NextHandler == [type |-> "handler", errorCode |-> NoError]
NextChain == [type |-> "chain", errorCode |-> NoError]
NextWire(code) == [type |-> "wire", errorCode |-> code]
NextMakeHat(code) == [type |-> "MakeHat", errorCode |-> code]

(***************************************************************************)
(* Spans of the tracing SDK                                                *)
(***************************************************************************)
\* a start that leaves out WithSpanKind: the SDK's default kind
StartSpanNoKind(provider, name, attributes, kind) ==
    [provider |-> provider, tracer |-> InstrumentationName, name |-> name,
     kind |-> "internal", attributes |-> attributes,
     status |-> [Code |-> CodesUnset, Description |-> << >>], endCalls |-> 0]

\* tracer.Start(ctx, fullMethod, WithAttributes(attributes...), WithSpanKind(kind))
StartSpan(provider, name, attributes, kind) ==
    [provider |-> provider, tracer |-> InstrumentationName, name |-> name,
     kind |-> kind, attributes |-> attributes,
     status |-> [Code |-> CodesUnset, Description |-> << >>], endCalls |-> 0]

\* span.SetStatus(code, description): ignored once the span has ended
SpanSetStatus(span, code, description) ==
    IF span.endCalls > 0
    THEN span
    ELSE [span EXCEPT !.status = [Code |-> code, Description |-> description]]

\* span.SetAttributes(kv...): ignored once the span has ended
SpanSetAttributes(span, kv) ==
    IF span.endCalls > 0
    THEN span
    ELSE [span EXCEPT !.attributes = @ \o kv]

\* span.End()
SpanEnd(span) == [span EXCEPT !.endCalls = @ + 1]

\* the first value of an attribute (requireAttribute of the test), or none
HasAttribute(attributes, key) == \E i \in 1..Len(attributes) : attributes[i].Key = key
AttributeValue(attributes, key) ==
    attributes[CHOOSE i \in 1..Len(attributes) :
                  /\ attributes[i].Key = key
                  /\ \A j \in 1..(i - 1) : attributes[j].Key # key].Value

(***************************************************************************)
(* State                                                                   *)
(***************************************************************************)
Init ==
    /\ interceptors = {}
    /\ global = "tpA"
    /\ calls = << >>
    /\ spans = << >>
    /\ exported = << >>

Finished(k) == calls[k].pc \in {"done", "panicked"}

\* the chain has run to its end (or none was started)
ChainOver == IF calls = << >> THEN TRUE ELSE Finished(1)

\* call k is the one the goroutine is executing
Running(k) ==
    /\ k \in 1..Len(calls)
    /\ calls[k].pc \notin {"waiting", "done", "panicked"}

\* the dispatch functions a call at depth k of the chain may wrap
NextsAt(k) ==
    {NextHandler}
      \cup (IF k < MaxCalls
            THEN {NextChain} \cup {NextWire(code) : code \in FixtureCodes}
            ELSE {})

(***************************************************************************)
(* The factories (lines 76-92)                                             *)
(***************************************************************************)
\* interceptor(kind, options): the config the returned closure captures
interceptor(kind, options) ==
    [kind |-> kind, c |-> applyOptions([provider |-> NilProvider], options)]

ServerInterceptor(options) ==
    /\ Cardinality(interceptors) < MaxInterceptors
    /\ interceptor(SpanKindServer, options) \notin interceptors
    /\ interceptors' = interceptors \cup {interceptor(SpanKindServer, options)}
    /\ UNCHANGED <<global, calls, spans, exported>>

ClientInterceptor(options) ==
    /\ Cardinality(interceptors) < MaxInterceptors
    /\ interceptor(SpanKindClient, options) \notin interceptors
    /\ interceptors' = interceptors \cup {interceptor(SpanKindClient, options)}
    /\ UNCHANGED <<global, calls, spans, exported>>

\* otel.SetTracerProvider(p), by the host (test line 253)
SetTracerProvider(p) ==
    /\ global # p
    /\ global' = p
    /\ UNCHANGED <<interceptors, calls, spans, exported>>

(***************************************************************************)
(* The method an interceptor returns (lines 94-116)                        *)
(***************************************************************************)
\* lines 95-106: resolve the tracer, start the span, defer span.End();
\* the call is then about to invoke next(ctx, req)
Enter(i, ctx, req, next, id) ==
    LET provider == getTracerProvider(i.c, ctx)
        common == commonAtrributes(ctx)
    IN [call |-> [icpt |-> i, ctx |-> ctx, req |-> req, next |-> next,
                  pc |-> "next", span |-> id,
                  ctx2 |-> [ctx EXCEPT !.span = [valid |-> TRUE, provider |-> provider,
                                                 id |-> id]],
                  nextArgs |-> << >>, nextResult |-> << >>, result |-> << >>,
                  log |-> <<"Start">>],
        span |-> StartSpan(provider, common.fullMethod, common.attributes, i.kind)]

\* a caller calls the method of interceptor i; a new chain begins and the
\* recording of the previous one is dropped (a fresh exporter, test line 245)
Call(i, ctx, req, next) ==
    /\ ChainOver
    /\ i \in interceptors
    /\ next.type = "wire" => /\ i.kind = SpanKindClient
                             /\ ctx.packageName.ok
    /\ LET e == Enter(i, ctx, req, next, 1)
       IN /\ calls' = <<e.call>>
          /\ spans' = <<e.span>>
    /\ exported' = << >>
    /\ UNCHANGED <<interceptors, global>>

\* a dispatch that hands next the caller's context, not the one of the new span
HandlerReturnOldCtx(k, r) ==
    /\ Running(k)
    /\ calls[k].pc = "next"
    /\ calls[k].next.type = "handler"
    /\ calls' = [calls EXCEPT ![k].pc = "returned",
                              ![k].nextArgs = Append(@, [ctx |-> calls[k].ctx,
                                                         req |-> calls[k].req]),
                              ![k].nextResult = <<r>>,
                              ![k].log = Append(@, "next")]
    /\ UNCHANGED <<interceptors, global, spans, exported>>

\* line 108, next is a plain handler: it returns r
HandlerReturn(k, r) ==
    /\ Running(k)
    /\ calls[k].pc = "next"
    /\ calls[k].next.type = "handler"
    /\ calls' = [calls EXCEPT ![k].pc = "returned",
                              ![k].nextArgs = Append(@, [ctx |-> calls[k].ctx2,
                                                         req |-> calls[k].req]),
                              ![k].nextResult = <<r>>,
                              ![k].log = Append(@, "next")]
    /\ UNCHANGED <<interceptors, global, spans, exported>>

\* line 108, next is a plain handler: it panics
HandlerPanic(k) ==
    /\ Running(k)
    /\ calls[k].pc = "next"
    /\ calls[k].next.type = "handler"
    /\ calls' = [calls EXCEPT ![k].pc = "panicking",
                              ![k].nextArgs = Append(@, [ctx |-> calls[k].ctx2,
                                                         req |-> calls[k].req]),
                              ![k].log = Append(@, "next")]
    /\ UNCHANGED <<interceptors, global, spans, exported>>

\* line 108, next is the method of a second interceptor i (chained
\* interceptors): it is entered with the context that carries the new span
ChainNext(k, i, next) ==
    /\ Running(k)
    /\ calls[k].pc = "next"
    /\ calls[k].next.type = "chain"
    /\ i \in interceptors
    /\ next.type = "wire" => i.kind = SpanKindClient
    /\ LET e == Enter(i, calls[k].ctx2, calls[k].req, next, Len(spans) + 1)
       IN /\ calls' = Append([calls EXCEPT ![k].pc = "waiting",
                                           ![k].nextArgs = Append(@, [ctx |-> calls[k].ctx2,
                                                                      req |-> calls[k].req]),
                                           ![k].log = Append(@, "next")],
                             e.call)
          /\ spans' = Append(spans, e.span)
    /\ UNCHANGED <<interceptors, global, exported>>

\* what the twirp server writes for the handler's result and the twirp client
\* reads back: the response, or the error as its code and message (an error
\* that is no twirp.Error is written as an internal error)
OverTheWire(r) ==
    IF r.err = NilErr
    THEN [resp |-> r.resp, err |-> NilErr]
    ELSE [resp |-> NilResp,
          err |-> IF r.err.tag = "twirp"
                  THEN TwirpErr(r.err.code, r.err.msg)
                  ELSE TwirpErr(Internal, ErrorString(r.err))]

\* line 108, next is the twirp client transport (test lines 259-273): the
\* request reaches the server, whose interceptor i wraps server.MakeHat
WireNext(k, i) ==
    /\ Running(k)
    /\ calls[k].pc = "next"
    /\ calls[k].next.type = "wire"
    /\ i \in interceptors
    /\ i.kind = SpanKindServer
    /\ LET e == Enter(i, NamedCtx(NoSpan), calls[k].req,
                      NextMakeHat(calls[k].next.errorCode), Len(spans) + 1)
       IN /\ calls' = Append([calls EXCEPT ![k].pc = "waiting",
                                           ![k].nextArgs = Append(@, [ctx |-> calls[k].ctx2,
                                                                      req |-> calls[k].req]),
                                           ![k].log = Append(@, "next")],
                             e.call)
          /\ spans' = Append(spans, e.span)
    /\ UNCHANGED <<interceptors, global, exported>>

\* server.MakeHat of the test (lines 339-349)
serverMakeHat(errorCode) ==
    IF errorCode # NoError
    THEN IF errorCode = <<"testing">>
         THEN [resp |-> NilResp, err |-> PlainErr(<<"testing">>)]
         ELSE [resp |-> NilResp, err |-> NewError(errorCode, errorCode)]
    ELSE [resp |-> Hat, err |-> NilErr]

\* line 108, next is server.MakeHat
MakeHat(k) ==
    /\ Running(k)
    /\ calls[k].pc = "next"
    /\ calls[k].next.type = "MakeHat"
    /\ calls' = [calls EXCEPT ![k].pc = "returned",
                              ![k].nextArgs = Append(@, [ctx |-> calls[k].ctx2,
                                                         req |-> calls[k].req]),
                              ![k].nextResult = <<serverMakeHat(calls[k].next.errorCode)>>,
                              ![k].log = Append(@, "next")]
    /\ UNCHANGED <<interceptors, global, spans, exported>>

\* the chained method has returned: next returns what it returned
ChainReturn(k) ==
    /\ k \in 1..(Len(calls) - 1)
    /\ calls[k].pc = "waiting"
    /\ calls[k].next.type = "chain"
    /\ calls[k + 1].pc = "done"
    /\ calls' = [calls EXCEPT ![k].pc = "returned",
                              ![k].nextResult = calls[k + 1].result]
    /\ UNCHANGED <<interceptors, global, spans, exported>>

\* the chained method has panicked: the panic reaches this call
ChainPanic(k) ==
    /\ k \in 1..(Len(calls) - 1)
    /\ calls[k].pc = "waiting"
    /\ calls[k].next.type = "chain"
    /\ calls[k + 1].pc = "panicked"
    /\ calls' = [calls EXCEPT ![k].pc = "panicking"]
    /\ UNCHANGED <<interceptors, global, spans, exported>>

\* the server has answered: next returns what the twirp client reads
WireReturn(k) ==
    /\ k \in 1..(Len(calls) - 1)
    /\ calls[k].pc = "waiting"
    /\ calls[k].next.type = "wire"
    /\ calls[k + 1].pc = "done"
    /\ calls' = [calls EXCEPT ![k].pc = "returned",
                              ![k].nextResult = <<OverTheWire(calls[k + 1].result[1])>>]
    /\ UNCHANGED <<interceptors, global, spans, exported>>

\* a status whose description is the reclassified message
SetStatusReclassified(k) ==
    /\ Running(k)
    /\ calls[k].pc = "returned"
    /\ LET err == calls[k].nextResult[1].err
           id == calls[k].span
       IN IF err # NilErr
          THEN /\ spans' = [spans EXCEPT ![id] = SpanSetStatus(@, CodesError,
                                                               asTwirpError(err).msg)]
               /\ calls' = [calls EXCEPT ![k].pc = "attributes",
                                         ![k].log = Append(@, "SetStatus")]
          ELSE /\ spans' = spans
               /\ calls' = [calls EXCEPT ![k].pc = "attributes"]
    /\ UNCHANGED <<interceptors, global, exported>>

\* lines 109-111
SetStatus(k) ==
    /\ Running(k)
    /\ calls[k].pc = "returned"
    /\ LET err == calls[k].nextResult[1].err
           id == calls[k].span
       IN IF err # NilErr
          THEN /\ spans' = [spans EXCEPT ![id] = SpanSetStatus(@, CodesError, ErrorString(err))]
               /\ calls' = [calls EXCEPT ![k].pc = "attributes",
                                         ![k].log = Append(@, "SetStatus")]
          ELSE /\ spans' = spans
               /\ calls' = [calls EXCEPT ![k].pc = "attributes"]
    /\ UNCHANGED <<interceptors, global, exported>>

\* line 113
SetAttributes(k) ==
    /\ Running(k)
    /\ calls[k].pc = "attributes"
    /\ LET err == calls[k].nextResult[1].err
           id == calls[k].span
       IN spans' = [spans EXCEPT ![id] = SpanSetAttributes(@, getTwirpErrorAttributes(err))]
    /\ calls' = [calls EXCEPT ![k].pc = "return",
                              ![k].log = Append(@, "SetAttributes")]
    /\ UNCHANGED <<interceptors, global, exported>>

\* the deferred span.End() of line 106; the SDK exports a span when it
\* is first ended (exporter.ExportSpans, lines 356-362)
deferredEnd(id) ==
    /\ spans' = [spans EXCEPT ![id] = SpanEnd(@)]
    /\ exported' = IF spans[id].endCalls = 0 THEN Append(exported, id) ELSE exported

\* a return of the reclassified error in place of the one next returned
returnValuesReclassified(resp, err) ==
    [resp |-> resp, err |-> IF err = NilErr THEN err ELSE asTwirpError(err)]

\* the operands of line 115
returnValues(resp, err) == [resp |-> resp, err |-> err]

\* line 115: return resp, err; the deferred span.End() runs
Return(k) ==
    /\ Running(k)
    /\ calls[k].pc = "return"
    /\ calls' = [calls EXCEPT ![k].pc = "done",
                              ![k].result = <<returnValues(calls[k].nextResult[1].resp,
                                                            calls[k].nextResult[1].err)>>,
                              ![k].log = Append(@, "End")]
    /\ deferredEnd(calls[k].span)
    /\ UNCHANGED <<interceptors, global>>

\* an unwinding without the deferred call: span.End() only on the normal return
UnwindNoEnd(k) ==
    /\ Running(k)
    /\ calls[k].pc = "panicking"
    /\ calls' = [calls EXCEPT ![k].pc = "panicked"]
    /\ UNCHANGED <<interceptors, global, spans, exported>>

\* next panicked: the deferred span.End() runs and the panic goes on to the caller
Unwind(k) ==
    /\ Running(k)
    /\ calls[k].pc = "panicking"
    /\ calls' = [calls EXCEPT ![k].pc = "panicked",
                              ![k].log = Append(@, "End")]
    /\ deferredEnd(calls[k].span)
    /\ UNCHANGED <<interceptors, global>>

Next ==
    \/ \E o \in OptionLists(MaxOptions) : ServerInterceptor(o)
    \/ \E o \in OptionLists(MaxOptions) : ClientInterceptor(o)
    \/ \E p \in Providers : SetTracerProvider(p)
    \/ \E i \in interceptors, ctx \in Contexts, next \in NextsAt(1) : Call(i, ctx, Size, next)
    \/ \E k \in 1..Len(calls), r \in HandlerResults : HandlerReturn(k, r)
    \/ \E k \in 1..Len(calls) : HandlerPanic(k)
    \/ \E k \in 1..Len(calls), i \in interceptors : \E next \in NextsAt(k + 1) : ChainNext(k, i, next)
    \/ \E k \in 1..Len(calls), i \in interceptors : WireNext(k, i)
    \/ \E k \in 1..Len(calls) : MakeHat(k)
    \/ \E k \in 1..Len(calls) : ChainReturn(k)
    \/ \E k \in 1..Len(calls) : ChainPanic(k)
    \/ \E k \in 1..Len(calls) : WireReturn(k)
    \/ \E k \in 1..Len(calls) : SetStatus(k)
    \/ \E k \in 1..Len(calls) : SetAttributes(k)
    \/ \E k \in 1..Len(calls) : Return(k)
    \/ \E k \in 1..Len(calls) : Unwind(k)

Spec == Init /\ [][Next]_vars

(***************************************************************************)
(* Properties                                                              *)
(***************************************************************************)
CallIds == 1..Len(calls)
SpanOf(k) == spans[calls[k].span]
NextReturned(k) == calls[k].nextResult # << >>
NextErr(k) == calls[k].nextResult[1].err
\* line 113 has run in call k
Classified(k) == calls[k].pc \in {"return", "done"}
IsPrefix(a, b) == Len(a) <= Len(b) /\ \A n \in 1..Len(a) : a[n] = b[n]

TypeOK ==
    /\ global \in Providers
    /\ Len(calls) <= MaxCalls
    /\ Len(spans) = Len(calls)
    /\ \A k \in CallIds : calls[k].span = k /\ calls[k].icpt \in interceptors

\* C1: an interceptor call that returns, returns exactly the response and
\* the error that the wrapped dispatch returned: nil stays nil, a classified
\* error and an unclassified error are returned as they are; and it returns
\* only after the dispatch returned.
C1_ReturnsUnchanged ==
    \A k \in CallIds :
        calls[k].result # << >> =>
            /\ NextReturned(k)
            /\ calls[k].result[1].resp = calls[k].nextResult[1].resp
            /\ calls[k].result[1].err = NextErr(k)
            /\ (NextErr(k) = NilErr => calls[k].result[1].err = NilErr)

\* an interceptor has returned the unclassified error of its dispatch
C1_Witness ==
    \E k \in CallIds :
        /\ calls[k].pc = "done"
        /\ NextErr(k).tag = "plain"
        /\ calls[k].result[1].err = NextErr(k)

\* C2: every span a call started is ended exactly once when the call has
\* exited, by return or by panic; it is not ended before, and never twice.
C2_EndedOnce ==
    \A k \in CallIds :
        /\ Finished(k) => SpanOf(k).endCalls = 1
        /\ ~Finished(k) => SpanOf(k).endCalls = 0
        /\ Cardinality({n \in 1..Len(exported) : exported[n] = calls[k].span})
              = SpanOf(k).endCalls

\* a call whose dispatch panicked has exited with its span ended
C2_Witness ==
    \E k \in CallIds :
        /\ calls[k].pc = "panicked"
        /\ SpanOf(k).endCalls = 1

\* the call k has just been entered by this step
Entered(k) ==
    /\ k \in 1..Len(calls')
    /\ calls'[k].pc = "next"
    /\ IF k \in CallIds THEN Finished(k) ELSE TRUE

\* C3: at every call the provider of the tracer is the explicit provider if
\* one was configured, else the provider of the valid span of the call's
\* context, else the process-wide default of that moment; it is a provider,
\* never nil.
C3_Resolution ==
    [][\A k \in 1..MaxCalls :
          Entered(k) =>
              LET c == calls'[k]
                  provider == spans'[c.span].provider
              IN /\ provider \in Providers
                 /\ spans'[c.span].tracer = InstrumentationName
                 /\ provider = IF c.icpt.c.provider # NilProvider
                               THEN c.icpt.c.provider
                               ELSE IF c.ctx.span.valid
                                    THEN c.ctx.span.provider
                                    ELSE global]_vars

\* two calls without explicit provider: the first took the default, the
\* second the provider of the span in its context although the default
\* has changed since
C3_Witness ==
    /\ Len(calls) = 2
    /\ calls[1].icpt.c.provider = NilProvider
    /\ ~calls[1].ctx.span.valid
    /\ calls[2].icpt.c.provider = NilProvider
    /\ calls[2].ctx.span.valid
    /\ spans[2].provider = calls[2].ctx.span.provider
    /\ global # spans[2].provider

\* C4: every ended span carries twirp.package, twirp.service, twirp.method
\* and twirp.error_code, whatever the outcome of the wrapped call.
C4_EndedSpanAttributes ==
    \A id \in 1..Len(spans) :
        spans[id].endCalls > 0 =>
            /\ HasAttribute(spans[id].attributes, PackageNameKey)
            /\ HasAttribute(spans[id].attributes, ServiceNameKey)
            /\ HasAttribute(spans[id].attributes, MethodNameKey)
            /\ HasAttribute(spans[id].attributes, ErrorCodeKey)

\* the spans exported by the round trip of call k: its own and the server's
RoundTripSpans(k) == {n \in 1..Len(exported) : exported[n] >= calls[k].span}

C6_NoError ==
    \A k \in CallIds :
        (NextReturned(k) /\ NextErr(k) = NilErr) =>
            /\ ~HasAttribute(SpanOf(k).attributes, ErrorMessageKey)
            /\ SpanOf(k).status.Code # CodesError
            /\ Classified(k) =>
                  /\ HasAttribute(SpanOf(k).attributes, ErrorCodeKey)
                  /\ AttributeValue(SpanOf(k).attributes, ErrorCodeKey) = <<"ok">>

\* a call without error has finished
C6_Witness ==
    \E k \in CallIds :
        /\ calls[k].pc = "done"
        /\ NextErr(k) = NilErr
        /\ SpanOf(k).endCalls = 1

\* the recorded classification of a span: its twirp.error_code and twirp.error_message
Recorded(span) ==
    <<AttributeValue(span.attributes, ErrorCodeKey),
      AttributeValue(span.attributes, ErrorMessageKey)>>

\* C7: for an error that already carries a code and a message, the recorded
\* twirp.error_code and twirp.error_message are that code and that message;
\* classifying the classified error again gives the same attributes, and the
\* client of a round trip records the pair the server recorded.
C7_Idempotent ==
    \A k \in CallIds :
        /\ (NextReturned(k) /\ NextErr(k).tag = "twirp") =>
              /\ getTwirpErrorAttributes(asTwirpError(NextErr(k)))
                    = << KeyValue(ErrorCodeKey, NextErr(k).code),
                         KeyValue(ErrorMessageKey, NextErr(k).msg) >>
              /\ Classified(k) => Recorded(SpanOf(k)) = <<NextErr(k).code, NextErr(k).msg>>
        /\ (NextReturned(k) /\ NextErr(k) # NilErr) =>
              getTwirpErrorAttributes(asTwirpError(NextErr(k)))
                 = getTwirpErrorAttributes(NextErr(k))
        /\ (calls[k].next.type = "wire" /\ Classified(k) /\ NextErr(k) # NilErr) =>
              Recorded(SpanOf(k)) = Recorded(SpanOf(k + 1))

\* the client of a round trip has recorded the error that the server had
\* reclassified from an unclassified one
C7_Witness ==
    \E k \in CallIds :
        /\ calls[k].next.type = "wire"
        /\ calls[k].pc = "done"
        /\ NextErr(k).tag = "twirp"
        /\ NextErr(k + 1).tag = "plain"
        /\ Recorded(SpanOf(k)) = <<NextErr(k).code, NextErr(k).msg>>

\* C8: when the wrapped call returned an error that is no twirp.Error, the
\* recorded code is "internal" and the recorded message is the text of that
\* error, for a server interceptor and for a client interceptor alike.
C8_Unclassified ==
    \A k \in CallIds :
        (NextReturned(k) /\ NextErr(k).tag = "plain" /\ Classified(k)) =>
            /\ calls[k].icpt.kind \in {SpanKindServer, SpanKindClient}
            /\ SpanOf(k).kind = calls[k].icpt.kind
            /\ Recorded(SpanOf(k)) = <<Internal, NextErr(k).text>>

\* a server interceptor and a client interceptor have both recorded the
\* same unclassified error
C8_Witness ==
    /\ Len(calls) = 2
    /\ calls[1].pc = "done"
    /\ calls[1].icpt.kind # calls[2].icpt.kind
    /\ NextErr(1).tag = "plain"
    /\ NextErr(2) = NextErr(1)
    /\ Recorded(spans[1]) = Recorded(spans[2])

\* C9: a span has error status only if the wrapped dispatch returned an
\* error, the description then being the string of that error; and a span
\* that has ended has error status exactly if the dispatch returned an error.
C9_Status ==
    \A k \in CallIds :
        /\ SpanOf(k).status.Code \in {CodesUnset, CodesError}
        /\ SpanOf(k).status.Code = CodesError =>
              /\ NextReturned(k)
              /\ NextErr(k) # NilErr
              /\ SpanOf(k).status.Description = ErrorString(NextErr(k))
        /\ SpanOf(k).endCalls > 0 =>
              (SpanOf(k).status.Code = CodesError <=> (NextReturned(k) /\ NextErr(k) # NilErr))

\* a span has ended with error status for a classified error, whose string
\* is not its message
C9_Witness ==
    \E k \in CallIds :
        /\ calls[k].pc = "done"
        /\ NextErr(k).tag = "twirp"
        /\ SpanOf(k).status.Code = CodesError
        /\ SpanOf(k).status.Description # NextErr(k).msg

\* the tracing effects of a call, in the orders the claim allows
Orders ==
    { <<"Start", "next", "SetStatus", "SetAttributes", "End">>,
      <<"Start", "next", "SetAttributes", "End">>,
      <<"Start", "next", "End">> }

\* C10: in every call the span is started, with the six base attributes and
\* the kind of the interceptor, before the dispatch is invoked; the dispatch
\* is invoked once, with the context that carries the new span and with
\* the request of the call; status and error attributes are set after the
\* dispatch has returned and before the end; the end comes last.
C10_Order ==
    \A k \in CallIds :
        /\ \E o \in Orders : IsPrefix(calls[k].log, o)
        /\ Finished(k) => calls[k].log \in Orders
        /\ SpanOf(k).endCalls > 0 => calls[k].log[Len(calls[k].log)] = "End"
        /\ Len(calls[k].nextArgs) = (IF calls[k].pc = "next" THEN 0 ELSE 1)
        /\ \A n \in 1..Len(calls[k].nextArgs) :
              /\ calls[k].nextArgs[n].req = calls[k].req
              /\ calls[k].nextArgs[n].ctx.span.valid
              /\ calls[k].nextArgs[n].ctx.span.id = calls[k].span
              /\ calls[k].nextArgs[n].ctx.packageName = calls[k].ctx.packageName
        /\ SpanOf(k).kind = calls[k].icpt.kind
        /\ Len(SpanOf(k).attributes) >= 6
        /\ {SpanOf(k).attributes[n].Key : n \in 1..6}
              = {PackageNameKey, ServiceNameKey, MethodNameKey,
                 RPCSystemKey, RPCMethodKey, RPCServiceKey}
        /\ calls[k].pc = "next" =>
              /\ Len(SpanOf(k).attributes) = 6
              /\ SpanOf(k).status.Code = CodesUnset
        /\ (\E n \in 1..Len(calls[k].log) : calls[k].log[n] \in {"SetStatus", "SetAttributes"})
              => NextReturned(k)

\* a call has gone through all five steps
C10_Witness ==
    \E k \in CallIds :
        /\ calls[k].log = <<"Start", "next", "SetStatus", "SetAttributes", "End">>
        /\ calls[k].nextArgs[1].ctx.span.id = calls[k].span

====
